---- MODULE Spec2Model ----
(***************************************************************************)
(* Bookstore backend (backend-python): the users and books tables, the    *)
(* authentication guards of src/core/auth.py and the handlers of          *)
(* src/api/v1/endpoints/{auth,users,books}.py.                            *)
(*                                                                         *)
(* The store is PostgreSQL (src/core/config.py DATABASE_URL) at its       *)
(* default isolation level READ COMMITTED: a statement reads the latest   *)
(* committed rows, SELECT ... FOR UPDATE and UPDATE take row locks that   *)
(* are held until the transaction commits or rolls back, and a statement  *)
(* that needs a row locked by another transaction waits for that          *)
(* transaction to end and then re-reads the row.                          *)
(*                                                                         *)
(* Strings the code transforms (emails, ISBNs) are sequences of           *)
(* one-character strings, so that lower(), strip(), replace() and upper() *)
(* are computed and not assumed.                                          *)
(***************************************************************************)
EXTENDS Integers, Sequences, FiniteSets, TLC

VARIABLES
    users,       \* table users: id -> [email, hashed_password, is_active, role]
    books,       \* table books: id -> [title, isbn, description, created_by]
    nextBookId,  \* the books.id autoincrement sequence
    pc,          \* per worker: where its PATCH /users/{id}/role request stands
    rq,          \* per worker: the request's locals (requester, target, loaded role, new role)
    locks,       \* per worker: the users rows its open transaction holds locked
    last         \* the most recent HTTP response, with the request it answers

vars == <<users, books, nextBookId, pc, rq, locks, last>>

----------------------------------------------------------------------------
(* Bounds *)

MaxUsers == 3
MaxBooks == 3

UserIds == 1..MaxUsers
\* Two server processes, each handling one request at a time: the concurrency
\* the last-admin and duplicate-key races are about.
Workers == {1, 2}
NoWorker == 0
\* a path parameter naming no row
MissingId == 0

----------------------------------------------------------------------------
(* Strings *)

Letters == <<"a", "b", "c", "d", "e", "f">>

\* str.lower() on one character
LowerChar(c) ==
    CASE c = "A" -> "a"
      [] c = "B" -> "b"
      [] c = "Z" -> "z"
      [] OTHER -> c

\* str.upper() on one character
UpperChar(c) ==
    CASE c = "x" -> "X"
      [] c = "a" -> "A"
      [] c = "b" -> "B"
      [] c = "z" -> "Z"
      [] OTHER -> c

lower(s) == [i \in 1..Len(s) |-> LowerChar(s[i])]

upper(s) == [i \in 1..Len(s) |-> UpperChar(s[i])]

RECURSIVE lstrip(_)
lstrip(s) == IF s # <<>> /\ Head(s) = " " THEN lstrip(Tail(s)) ELSE s

RECURSIVE rstrip(_)
rstrip(s) ==
    IF s # <<>> /\ s[Len(s)] = " " THEN rstrip(SubSeq(s, 1, Len(s) - 1)) ELSE s

strip(s) == rstrip(lstrip(s))

\* normalize_email with the field validator left out
normalize_email_identity(v) == v

\* UserCreate / UserLogin / UserUpdate .normalize_email
normalize_email(v) == strip(lower(v))

----------------------------------------------------------------------------
(* Users, passwords, tokens *)

USER == "user"
ADMIN == "admin"
UserRole == {USER, ADMIN}

None == <<>>
NoUserId == 0
\* a field the request body does not set (model_dump(exclude_unset=True))
Unset == <<>>

SeedEmail(i) == <<Letters[i]>>
\* "TestPass1!", the password every provisioned account starts with
SeedPassword == <<"T", "e", "s", "t", "P", "a", "s", "s", "1", "!">>
\* "NewPass12!", a strong password a profile update sets
NewPassword == <<"N", "e", "w", "P", "a", "s", "s", "1", "2", "!">>
\* "WrongPas1!", a strong password nobody has
WrongPassword == <<"W", "r", "o", "n", "g", "P", "a", "s", "1", "!">>
\* "short", rejected by the strength rule
WeakPassword == <<"s", "h", "o", "r", "t">>

Salts == {1, 2}

\* pwd_context.hash: bcrypt with a fresh salt on every call
hash_password(password, salt) == [alg |-> "bcrypt", salt |-> salt, digest |-> <<salt, password>>]

\* A verification that accepts every password
verify_password_any(plain_password, hashed_password) == TRUE

\* pwd_context.verify: the hash recomputed with the stored salt
verify_password(plain_password, hashed_password) ==
    hashed_password.digest = <<hashed_password.salt, plain_password>>

\* The token login issues for user u: create_access_token(data={"sub", "user_id", "role"})
create_access_token(sub, user_id, role) ==
    [sig |-> "ok", sub |-> sub, user_id |-> user_id, role |-> role]

\* A request without an Authorization header
NoCredentials == [sig |-> "absent", sub |-> None, user_id |-> NoUserId, role |-> USER]

\* A bearer string jwt.decode rejects (bad signature, expired, malformed)
InvalidToken == [sig |-> "bad", sub |-> None, user_id |-> NoUserId, role |-> USER]

Ok(uid) == [status |-> 200, detail |-> "ok", uid |-> uid]
Fail(status, detail) == [status |-> status, detail |-> detail, uid |-> NoUserId]

\* verify_token: JWTError and a missing sub raise the 401 credentials_exception;
\* TokenData(email, user_id) with user_id None raises pydantic's ValidationError,
\* which is no JWTError and is caught nowhere: the response is a 500.
verify_token(token) ==
    IF token.sig # "ok" \/ token.sub = None
    THEN Fail(401, "Could not validate credentials") @@ [email |-> None]
    ELSE IF token.user_id = NoUserId
    THEN Fail(500, "Internal Server Error") @@ [email |-> None]
    ELSE [status |-> 200, detail |-> "ok", uid |-> token.user_id, email |-> token.sub]

\* Instants and durations are counted in ticks, a second is TicksPerSecond ticks
TicksPerSecond == 2
ACCESS_TOKEN_EXPIRE_MINUTES == 30

\* timedelta(minutes=m)
timedelta_minutes(m) == m * 60 * TicksPerSecond

\* An Optional[timedelta]: None, or the one-element tuple of its ticks
timedelta(ticks) == <<ticks>>

\* timegm(d.utctimetuple()): the whole seconds of an instant, the way jose
\* writes the exp claim and reads the clock
timegm(instant) == instant \div TicksPerSecond

\* create_access_token(data, expires_delta) called at utcnow: a None or zero
\* expires_delta is falsy and the default lifetime is taken
create_access_token_at(data, expires_delta, utcnow) ==
    LET expire == IF expires_delta # None /\ expires_delta # timedelta(0)
                  THEN utcnow + expires_delta[1]
                  ELSE utcnow + timedelta_minutes(ACCESS_TOKEN_EXPIRE_MINUTES)
    IN
    create_access_token(data.sub, data.user_id, data.role) @@ [exp |-> timegm(expire)]

\* verify_token called at utcnow: jwt.decode raises ExpiredSignatureError, a
\* JWTError, when exp < now in whole seconds
verify_token_at(token, utcnow) ==
    IF token.exp < timegm(utcnow)
    THEN Fail(401, "Could not validate credentials") @@ [email |-> None]
    ELSE verify_token(token)

\* db.query(User).filter(User.email == email).first()
UserByEmail(us, email) == {u \in DOMAIN us : us[u].email = email}

\* get_current_user: HTTPBearer, verify_token, lookup by the token's email, active check
get_current_user(token, us) ==
    IF token.sig = "absent" THEN Fail(403, "Not authenticated")
    ELSE LET token_data == verify_token(token) IN
         IF token_data.status # 200 THEN Fail(token_data.status, token_data.detail)
         ELSE LET found == UserByEmail(us, token_data.email) IN
              IF found = {} THEN Fail(401, "User not found")
              ELSE LET u == CHOOSE u \in found : TRUE IN
                   IF ~us[u].is_active THEN Fail(403, "Inactive user") ELSE Ok(u)

\* get_admin_user with the role check left out
get_admin_user_no_role_check(token, us) == get_current_user(token, us)

\* get_admin_user deciding on the role claim of the token
get_admin_user_by_claim(token, us) ==
    LET current_user == get_current_user(token, us) IN
    IF current_user.status # 200 THEN current_user
    ELSE IF token.role # ADMIN
    THEN Fail(403, "Not enough permissions. Admin role required.")
    ELSE current_user

\* get_admin_user: get_current_user, then role == ADMIN
get_admin_user(token, us) ==
    LET current_user == get_current_user(token, us) IN
    IF current_user.status # 200 THEN current_user
    ELSE IF us[current_user.uid].role # ADMIN
    THEN Fail(403, "Not enough permissions. Admin role required.")
    ELSE current_user

\* The bearer tokens a request may carry: what POST /login returns for a user
\* as stored now, a validly signed token without the user_id claim, an invalid
\* token, and no credentials at all.
FreshTokens(us) ==
    {create_access_token(us[u].email, u, us[u].role) : u \in DOMAIN us}

LegacyTokens(us) ==
    {create_access_token(us[u].email, NoUserId, us[u].role) : u \in DOMAIN us}

\* Tokens a login issued while every user still had the provisioned email:
\* valid for their 30 minutes whatever PUT /me has changed since
SeedTokens(us) ==
    {create_access_token(SeedEmail(u), u, us[u].role) : u \in DOMAIN us}

\* Tokens a login issued to a user under the role the user had then
RoleTokens(us) ==
    {create_access_token(us[u].email, u, role) : u \in DOMAIN us, role \in UserRole}

Bearers(us) == FreshTokens(us) \cup LegacyTokens(us) \cup {InvalidToken, NoCredentials}

AdminIds(us) == {u \in DOMAIN us : us[u].role = ADMIN}
admin_count(us) == Cardinality(AdminIds(us))

----------------------------------------------------------------------------
(* Responses *)

\* What a request was answered: the handler, the status and detail, the user
\* the bearer token resolved to (or NoUserId), and the request's inputs.
Response(op, r, req) ==
    [op |-> op, status |-> r.status, detail |-> r.detail, uid |-> r.uid, req |-> req]

NoRequest == <<>>
NoResponse == Response("none", Ok(NoUserId), NoRequest)

As(uid, r) == [r EXCEPT !.uid = uid]

----------------------------------------------------------------------------
(* Token lifetime *)

\* The lifetimes a token is issued with: none given, zero, a second, a second
\* and a half, the configured 30 minutes
Lifetimes == {None, timedelta(0), timedelta(TicksPerSecond), timedelta(TicksPerSecond + 1),
              timedelta(timedelta_minutes(ACCESS_TOKEN_EXPIRE_MINUTES))}

\* The instants a token is issued at: on a whole second or inside one
IssueInstants == {0, 1}

\* How long after its issue a token is presented
Ages == (0..(2 * TicksPerSecond + 1))
        \cup {timedelta_minutes(ACCESS_TOKEN_EXPIRE_MINUTES) + i : i \in -1..(TicksPerSecond + 1)}

\* create_access_token for user u at utcnow; worker w keeps the token
issue_token(w, u, expires_delta, utcnow) ==
    LET data == [sub |-> users[u].email, user_id |-> u, role |-> users[u].role]
        token == create_access_token_at(data, expires_delta, utcnow)
        req == [token |-> token, expires_delta |-> expires_delta, issued |-> utcnow]
    IN
    /\ rq' = [rq EXCEPT ![w] = req]
    /\ last' = Response("create_access_token", Ok(u), req)
    /\ UNCHANGED <<users, books, nextBookId, pc, locks>>

\* verify_token at utcnow on the token worker w keeps
verify_token_step(w, utcnow) ==
    /\ "token" \in DOMAIN rq[w]
    /\ utcnow >= rq[w].issued
    /\ LET token_data == verify_token_at(rq[w].token, utcnow) IN
       last' = Response("verify_token", token_data, rq[w] @@ [utcnow |-> utcnow])
               @@ [email |-> token_data.email]
    /\ UNCHANGED <<users, books, nextBookId, pc, rq, locks>>

----------------------------------------------------------------------------
(* Integrity errors *)

\* The JSON body of a raised HTTPException(status_code, detail)
HTTPException(detail) == [detail |-> detail]

\* The phrases parse_integrity_error looks for in str(exc.orig).lower(); a
\* message is the set of the phrases it contains
Phrases == {"unique constraint", "duplicate key", "isbn", "email",
            "foreign key constraint", "violates foreign key",
            "still referenced", "on delete",
            "not null constraint", "null value", "column \"title\"",
            "check constraint"}

ErrorMessages == SUBSET Phrases

ErrorInfo(type, message, status_code) ==
    [type |-> type, message |-> message, status_code |-> status_code]

\* parse_integrity_error with the foreign-key test ahead of the unique test
parse_integrity_error_fk_first(error_message) ==
    IF "foreign key constraint" \in error_message \/ "violates foreign key" \in error_message
    THEN IF "still referenced" \in error_message \/ "on delete" \in error_message
         THEN ErrorInfo("foreign_key_referenced",
                        "Cannot delete this resource because it is referenced by other records",
                        409)
         ELSE ErrorInfo("foreign_key_violation", "Referenced resource does not exist", 400)
    ELSE IF "unique constraint" \in error_message \/ "duplicate key" \in error_message
    THEN IF "isbn" \in error_message
         THEN ErrorInfo("duplicate_isbn", "A book with this ISBN already exists", 409)
         ELSE IF "email" \in error_message
         THEN ErrorInfo("duplicate_email", "This email is already registered", 409)
         ELSE ErrorInfo("duplicate_resource", "This resource already exists in the database",
                        409)
    ELSE IF "not null constraint" \in error_message \/ "null value" \in error_message
    THEN ErrorInfo("missing_required_field",
                   IF "column \"title\"" \in error_message
                   THEN "Required field 'title' is missing"
                   ELSE "Required field is missing", 400)
    ELSE IF "check constraint" \in error_message
    THEN ErrorInfo("check_constraint_violation",
                   "Data validation failed: value does not meet required criteria", 400)
    ELSE ErrorInfo("integrity_error", "Database integrity constraint violated", 400)

\* parse_integrity_error: the first matching branch of unique, foreign key,
\* not null, check, generic
parse_integrity_error(error_message) ==
    IF "unique constraint" \in error_message \/ "duplicate key" \in error_message
    THEN IF "isbn" \in error_message
         THEN ErrorInfo("duplicate_isbn", "A book with this ISBN already exists", 409)
         ELSE IF "email" \in error_message
         THEN ErrorInfo("duplicate_email", "This email is already registered", 409)
         ELSE ErrorInfo("duplicate_resource", "This resource already exists in the database",
                        409)
    ELSE IF "foreign key constraint" \in error_message \/ "violates foreign key" \in error_message
    THEN IF "still referenced" \in error_message \/ "on delete" \in error_message
         THEN ErrorInfo("foreign_key_referenced",
                        "Cannot delete this resource because it is referenced by other records",
                        409)
         ELSE ErrorInfo("foreign_key_violation", "Referenced resource does not exist", 400)
    ELSE IF "not null constraint" \in error_message \/ "null value" \in error_message
    THEN ErrorInfo("missing_required_field",
                   IF "column \"title\"" \in error_message
                   THEN "Required field 'title' is missing"
                   ELSE "Required field is missing", 400)
    ELSE IF "check constraint" \in error_message
    THEN ErrorInfo("check_constraint_violation",
                   "Data validation failed: value does not meet required criteria", 400)
    ELSE ErrorInfo("integrity_error", "Database integrity constraint violated", 400)

\* integrity_error_handler: the JSONResponse built from the parsed error
integrity_error_handler(error_message) ==
    LET error_info == parse_integrity_error(error_message) IN
    /\ last' = Response("integrity_error_handler",
                        Fail(error_info.status_code, error_info.message), error_message)
                @@ [content |-> [detail |-> error_info.message,
                                 error_type |-> error_info.type]]
    /\ UNCHANGED <<users, books, nextBookId, pc, rq, locks>>

----------------------------------------------------------------------------
(* Row locks *)

\* RowsFree with FOR UPDATE left out, nothing ever waits
RowsFree_unlocked(w, ids) == TRUE

\* Worker w's statement can lock the rows ids: no other open transaction holds one
RowsFree(w, ids) == \A o \in Workers \ {w} : locks[o] \cap ids = {}

IdleRq == [uid |-> NoUserId, id |-> MissingId, role |-> USER, loaded |-> USER]

----------------------------------------------------------------------------
(* PATCH /users/{user_id}/role : update_user_role, one action per statement *)

\* Depends(get_admin_user): the guard runs before the handler body
update_user_role_guard(w, token, user_id, role) ==
    /\ pc[w] = "idle"
    /\ LET admin == get_admin_user(token, users)
           current_user == get_current_user(token, users)
       IN
       IF admin.status # 200
       THEN /\ last' = Response("update_user_role", As(current_user.uid, admin), NoRequest)
            /\ UNCHANGED <<pc, rq>>
       ELSE /\ pc' = [pc EXCEPT ![w] = "read"]
            /\ rq' = [rq EXCEPT ![w] = [uid |-> admin.uid, id |-> user_id, role |-> role,
                                        loaded |-> USER]]
            /\ UNCHANGED last
    /\ UNCHANGED <<users, books, nextBookId, locks>>

\* user = db.query(User).filter(User.id == user_id).first(); 404 if absent;
\* the demotion test on the loaded role
update_user_role_read(w) ==
    /\ pc[w] = "read"
    /\ IF rq[w].id \notin DOMAIN users
       THEN /\ last' = Response("update_user_role", Fail(404, "User not found"), NoRequest)
            /\ pc' = [pc EXCEPT ![w] = "idle"]
            /\ rq' = [rq EXCEPT ![w] = IdleRq]
       ELSE LET loaded == users[rq[w].id].role IN
            /\ rq' = [rq EXCEPT ![w].loaded = loaded]
            /\ pc' = [pc EXCEPT ![w] =
                        IF loaded = ADMIN /\ rq[w].role = USER THEN "count" ELSE "write"]
            /\ UNCHANGED last
    /\ UNCHANGED <<users, books, nextBookId, locks>>

\* last_admin with the comparison off by one
last_admin_off_by_one(count) == count < 1

\* if admin_count <= 1: raise HTTPException(400)
last_admin(count) == count <= 1

\* admin_count = db.query(User.id).filter(role == ADMIN).with_for_update().count()
\* then the last-admin test; the HTTPException ends the request and get_db rolls back
update_user_role_count(w) ==
    /\ pc[w] = "count"
    /\ RowsFree(w, AdminIds(users))
    /\ IF last_admin(admin_count(users))
       THEN /\ last' = Response("update_user_role",
                                Fail(400, "Cannot demote the last admin user"), NoRequest)
            /\ pc' = [pc EXCEPT ![w] = "idle"]
            /\ rq' = [rq EXCEPT ![w] = IdleRq]
            /\ UNCHANGED locks
       ELSE /\ locks' = [locks EXCEPT ![w] = AdminIds(users)]
            /\ pc' = [pc EXCEPT ![w] = "write"]
            /\ UNCHANGED <<rq, last>>
    /\ UNCHANGED <<users, books, nextBookId>>

\* user.role = role_update.role; db.commit(); db.refresh(user); return user.
\* The unit of work emits UPDATE users SET role only when the value differs from
\* the loaded one; the UPDATE needs the row's lock; COMMIT releases every lock.
update_user_role_commit(w) ==
    /\ pc[w] = "write"
    /\ LET dirty == rq[w].loaded # rq[w].role IN
       /\ dirty => RowsFree(w, {rq[w].id})
       /\ users' = IF dirty THEN [users EXCEPT ![rq[w].id].role = rq[w].role] ELSE users
    /\ locks' = [locks EXCEPT ![w] = {}]
    /\ last' = Response("update_user_role", Ok(NoUserId), NoRequest)
    /\ pc' = [pc EXCEPT ![w] = "idle"]
    /\ rq' = [rq EXCEPT ![w] = IdleRq]
    /\ UNCHANGED <<books, nextBookId>>

\* GET /users: list_users behind get_admin_user, with the default skip and limit
list_users(token) ==
    LET admin == get_admin_user(token, users)
        current_user == get_current_user(token, users)
        req == [token |-> token]
    IN
    /\ last' = IF admin.status # 200
               THEN Response("list_users", As(current_user.uid, admin), req)
               ELSE Response("list_users", admin, req) @@ [body |-> DOMAIN users]
    /\ UNCHANGED <<users, books, nextBookId, pc, rq, locks>>

\* GET /users/{user_id}: get_user behind get_admin_user; 404 if no such user
get_user(token, user_id) ==
    LET admin == get_admin_user(token, users)
        current_user == get_current_user(token, users)
        req == [token |-> token, user_id |-> user_id]
    IN
    /\ last' = IF admin.status # 200
               THEN Response("get_user", As(current_user.uid, admin), req)
               ELSE IF user_id \notin DOMAIN users
               THEN Response("get_user", As(admin.uid, Fail(404, "User not found")), req)
               ELSE Response("get_user", admin, req) @@ [body |-> users[user_id]]
    /\ UNCHANGED <<users, books, nextBookId, pc, rq, locks>>

----------------------------------------------------------------------------
(* Password strength *)

Lowercase == {"a", "b", "c", "d", "e", "g", "h", "n", "o", "r", "s", "t", "w", "x", "z"}
Uppercase == {"A", "B", "N", "P", "S", "T", "W", "X", "Z"}
Digits == {"0", "1", "2", "3", "4", "5", "6", "7", "8", "9"}

Has(s, class) == \E i \in 1..Len(s) : s[i] \in class

PasswordMinLength == 8
PasswordMaxLength == 100

\* validate_password_strength (src/schemas/validators.py does not hold it):
\* length 8..100, a lowercase letter, an uppercase letter, a digit and a
\* character that is neither letter nor digit
validate_password_strength(v) ==
    /\ Len(v) >= PasswordMinLength
    /\ Len(v) <= PasswordMaxLength
    /\ Has(v, Lowercase)
    /\ Has(v, Uppercase)
    /\ Has(v, Digits)
    /\ \E i \in 1..Len(v) : v[i] \notin Lowercase \cup Uppercase \cup Digits

----------------------------------------------------------------------------
(* POST /register, POST /login, GET /me, PUT /me *)

\* The emails request bodies carry, before normalization
RawEmails == {<<"a">>, <<"A">>, <<"B">>, <<"z">>, <<"Z">>}

\* UserCreate has the fields email and password only; a role in the body is
\* dropped by the schema, and reading user.role raises AttributeError: the
\* request that passed validation and the existence check is answered 500
\* and nothing is added.
register_user(email, password, role) ==
    /\ LET user_email == normalize_email(email) IN
       last' = Response("register_user",
                  IF ~validate_password_strength(password)
                  THEN Fail(422, "Unprocessable Entity")
                  ELSE IF UserByEmail(users, user_email) # {}
                  THEN Fail(400, "User with email already exists")
                  ELSE Fail(500, "Internal Server Error"),
                  [email |-> email, password |-> password, role |-> role])
    /\ UNCHANGED <<users, books, nextBookId, pc, rq, locks>>

\* register_user on worker w, up to the construction of the User: the body is
\* validated and the existence of the email checked
register_user_check(w, email, password, role) ==
    LET user_email == normalize_email(email)
        req == [email |-> email, password |-> password, role |-> role]
    IN
    /\ pc[w] = "idle"
    /\ IF ~validate_password_strength(password)
       THEN /\ last' = Response("register_user", Fail(422, "Unprocessable Entity"), req)
            /\ UNCHANGED <<pc, rq>>
       ELSE IF UserByEmail(users, user_email) # {}
       THEN /\ last' = Response("register_user",
                                Fail(400, "User with email already exists"), req)
            /\ UNCHANGED <<pc, rq>>
       ELSE /\ pc' = [pc EXCEPT ![w] = "create"]
            /\ rq' = [rq EXCEPT ![w] = req]
            /\ UNCHANGED last
    /\ UNCHANGED <<users, books, nextBookId, locks>>

\* register_user on worker w after the existence check: User(..., role=user.role)
\* raises AttributeError before db.add, the request is answered 500
register_user_create(w) ==
    /\ pc[w] = "create"
    /\ last' = Response("register_user", Fail(500, "Internal Server Error"), rq[w])
    /\ pc' = [pc EXCEPT ![w] = "idle"]
    /\ rq' = [rq EXCEPT ![w] = IdleRq]
    /\ UNCHANGED <<users, books, nextBookId, locks>>

\* authenticate_user with the password verification left out
authenticate_user_by_email(us, email, password) == UserByEmail(us, email)

\* authenticate_user: lookup by email, then verify_password
authenticate_user(us, email, password) ==
    {u \in UserByEmail(us, email) : verify_password(password, us[u].hashed_password)}

\* The body of a response that carries no access_token
NoToken == [sig |-> "none", sub |-> None, user_id |-> NoUserId, role |-> USER]

\* login with the is_active test left out
may_login_inactive(user) == TRUE

\* the test login makes before it issues the token: user.is_active
may_login(user) == user.is_active

\* login: UserLogin normalizes the email; 401 when authenticate_user returns
\* None, 403 for an inactive user, else the token
login(email, password) ==
    /\ LET user == authenticate_user(users, normalize_email(email), password)
           u == CHOOSE u \in user : TRUE
           r == IF user = {} THEN Fail(401, "Incorrect email or password")
                ELSE IF ~may_login(users[u]) THEN Fail(403, "User account is inactive")
                ELSE Ok(u)
       IN
       last' = Response("login", r, [email |-> email, password |-> password])
               @@ [access_token |->
                      IF r.status = 200
                      THEN create_access_token(users[u].email, u, users[u].role)
                      ELSE NoToken]
    /\ UNCHANGED <<users, books, nextBookId, pc, rq, locks>>

\* get_current_user_profile
get_current_user_profile(token) ==
    /\ last' = Response("get_current_user_profile", get_current_user(token, users), token)
    /\ UNCHANGED <<users, books, nextBookId, pc, rq, locks>>

\* The PUT /me bodies: each field set or not
UserUpdate(emails, passwords, actives, currents) ==
    [email : emails, password : passwords, is_active : actives, current_password : currents]

\* email_in_use with the existence query left out
email_in_use_unchecked(us, u, new_email) == FALSE

\* user_update.email and user_update.email != current_user.email, and a user
\* with that email exists
email_in_use(us, u, new_email) ==
    new_email # Unset /\ new_email # us[u].email /\ UserByEmail(us, new_email) # {}

\* update_user_profile: the email-in-use check, then every set field is
\* written (the password hashed first) and committed.  current_password is a
\* set field like the others: it is assigned to the object and has no column.
update_user_profile(token, user_update, salt) ==
    LET current_user == get_current_user(token, users)
        u == current_user.uid
        new_email == IF user_update.email = Unset THEN Unset
                     ELSE normalize_email(user_update.email)
        after == [email |-> IF new_email = Unset THEN users[u].email ELSE new_email,
                  hashed_password |->
                      IF user_update.password = Unset THEN users[u].hashed_password
                      ELSE hash_password(user_update.password, salt),
                  is_active |->
                      IF user_update.is_active = "unset" THEN users[u].is_active
                      ELSE user_update.is_active = "true",
                  role |-> users[u].role]
    IN
    IF current_user.status # 200
    THEN /\ last' = Response("update_user_profile", current_user, user_update)
         /\ UNCHANGED <<users, books, nextBookId, pc, rq, locks>>
    ELSE IF user_update.password # Unset /\ ~validate_password_strength(user_update.password)
    THEN /\ last' = Response("update_user_profile", As(u, Fail(422, "Unprocessable Entity")), user_update)
         /\ UNCHANGED <<users, books, nextBookId, pc, rq, locks>>
    ELSE IF email_in_use(users, u, new_email)
    THEN /\ last' = Response("update_user_profile", As(u, Fail(400, "Email already in use")), user_update)
         /\ UNCHANGED <<users, books, nextBookId, pc, rq, locks>>
    ELSE /\ after # users[u] => RowsFree(NoWorker, {u})
         /\ users' = [users EXCEPT ![u] = after]
         /\ last' = Response("update_user_profile", Ok(u), user_update)
         /\ UNCHANGED <<books, nextBookId, pc, rq, locks>>

----------------------------------------------------------------------------
(* ISBNs *)

\* str.isdigit(): non-empty and every character a decimal digit
isdigit(s) == s # <<>> /\ \A i \in 1..Len(s) : s[i] \in Digits

\* v.replace('-', '').replace(' ', '')
remove_separators(v) == SelectSeq(v, LAMBDA c : c # "-" /\ c # " ")

IsbnFieldMinLength == 10
IsbnFieldMaxLength == 17

\* the shape test shared by the three ISBN validators
isbn_shape(cleaned) ==
    /\ Len(cleaned) \in {10, 13}
    /\ isdigit(SubSeq(cleaned, 1, Len(cleaned) - 1))
    /\ \/ isdigit(<<cleaned[Len(cleaned)]>>)
       \/ Len(cleaned) = 10 /\ UpperChar(cleaned[Len(cleaned)]) = "X"

\* validate_isbn with the conversion to uppercase left out of the result
validate_isbn_case_kept(v) ==
    LET cleaned == remove_separators(v) IN
    [ok |-> isbn_shape(cleaned), value |-> cleaned]

\* validators.validate_isbn: separators removed and the result uppercased
validate_isbn(v) ==
    LET cleaned == upper(remove_separators(v)) IN
    [ok |-> isbn_shape(cleaned), value |-> cleaned]

\* BookBase.normalize_isbn and BookUpdate.normalize_isbn, after the Field
\* length constraint on the raw string: separators removed, the shape tested
\* with the last character uppercased, and cleaned returned as it is
normalize_isbn(v) ==
    LET cleaned == remove_separators(v) IN
    [ok |-> Len(v) >= IsbnFieldMinLength /\ Len(v) <= IsbnFieldMaxLength
            /\ isbn_shape(cleaned),
     value |-> cleaned]

\* The normalized form the data model compares ISBNs in
NormalizedIsbn(isbn) == upper(remove_separators(isbn))

Isbn13 == <<"9", "7", "8", "0", "1", "2", "3", "4", "5", "6", "7", "8", "9">>
Isbn13Dashed == <<"9", "7", "8", "-", "0", "-", "1", "2", "-", "3", "4", "5", "6", "7", "8", "-", "9">>
Isbn13Spaced == <<"9", "7", "8", " ", "0", " ", "1", "2", " ", "3", "4", "5", "6", "7", "8", " ", "9">>
Isbn10X == <<"0", "3", "0", "6", "4", "0", "6", "1", "5", "X">>
Isbn10x == <<"0", "3", "0", "6", "4", "0", "6", "1", "5", "x">>
Isbn10Dashed == <<"0", "-", "3", "0", "6", "-", "4", "0", "6", "1", "5", "-", "X">>
\* 13 characters ending in X
Isbn13X == <<"9", "7", "8", "0", "1", "2", "3", "4", "5", "6", "7", "8", "X">>
\* 9 characters once the dashes are removed
IsbnShort == <<"0", "-", "3", "0", "6", "-", "4", "0", "6", "1", "5">>

RawIsbns == {Isbn13, Isbn13Dashed, Isbn10X, Isbn10x, Isbn10Dashed, Isbn13X, IsbnShort}

Titles == {<<"T1">>, <<"T2">>}

\* Spellings for validate_isbn: 8, 9 or 12 leading characters, a last
\* character, and a separator after any of three positions
IsbnStems == {SubSeq(Isbn13, 1, 8), SubSeq(Isbn13, 1, 9), SubSeq(Isbn13, 1, 12),
              <<"9", "7", "8", "0", "A", "2", "3", "4", "5">>}
IsbnLastChars == {"2", "X", "x", "a"}
IsbnSeparators == {"-", " "}
IsbnSeparatorPositions == {1, 4, 8}

RECURSIVE separated(_, _, _, _)
separated(core, sep, positions, i) ==
    IF i > Len(core) THEN <<>>
    ELSE (IF i \in positions THEN <<core[i], sep>> ELSE <<core[i]>>)
         \o separated(core, sep, positions, i + 1)

IsbnInputs ==
    {separated(stem \o <<c>>, sep, positions, 1) :
        stem \in IsbnStems, c \in IsbnLastChars, sep \in IsbnSeparators,
        positions \in SUBSET IsbnSeparatorPositions}

\* a call of validate_isbn: the cleaned string returned, or ValueError raised
validate_isbn_call(v) ==
    LET r == validate_isbn(v) IN
    /\ last' = Response("validate_isbn",
                        IF r.ok THEN Ok(NoUserId) ELSE Fail(422, "ValueError"), v)
                @@ [value |-> IF r.ok THEN r.value ELSE None]
    /\ UNCHANGED <<users, books, nextBookId, pc, rq, locks>>

----------------------------------------------------------------------------
(* Books *)

BookIds == DOMAIN books

\* the books.isbn unique index: would row id holding isbn violate it
isbn_unique_violation(bs, id, isbn) == \E b \in DOMAIN bs : b # id /\ bs[b].isbn = isbn

\* response_model=BookResponse: the fields of BookBase and the id are
\* serialized, any other attribute of the row is dropped
BookResponse(id, db_book) ==
    [id |-> id, title |-> db_book.title, isbn |-> db_book.isbn,
     description |-> db_book.description]

\* GET /api/v1/books/{book_id}: get_book, open to everyone
get_book(book_id) ==
    /\ last' = IF book_id \notin BookIds
               THEN Response("get_book", Fail(404, "Book not found"), [book_id |-> book_id])
               ELSE Response("get_book", Ok(NoUserId), [book_id |-> book_id])
                    @@ [body |-> BookResponse(book_id, books[book_id])]
    /\ UNCHANGED <<users, books, nextBookId, pc, rq, locks>>

\* title and isbn are NOT NULL columns (description is nullable)
not_null_violation(row) == row.title = None \/ row.isbn = None

\* How the storage engine answers a commit
Storage == {"ok", "down"}

\* commit with db.rollback() left out: the tentative write stays visible
commit_without_rollback(bs, id, written, storage) ==
    [error |-> IF storage = "down" THEN "SQLAlchemyError"
               ELSE IF id \in DOMAIN written /\ not_null_violation(written[id])
               THEN "IntegrityError"
               ELSE IF id \in DOMAIN written /\ isbn_unique_violation(written, id, written[id].isbn)
               THEN "IntegrityError"
               ELSE "none",
     constraint |-> IF id \in DOMAIN written /\ not_null_violation(written[id])
                    THEN "not-null" ELSE "isbn unique",
     books |-> written]

\* db.commit() of the table `written`, row id added, changed or deleted, over
\* the committed table bs: the engine fails (SQLAlchemyError), the isbn unique
\* row has NULL in a NOT NULL column or the isbn unique index rejects it
\* (IntegrityError, naming the constraint), or the write is stored.  After an
\* error the handler calls db.rollback(): the table is bs again.
commit(bs, id, written, storage) ==
    IF storage = "down"
    THEN [error |-> "SQLAlchemyError", constraint |-> "isbn unique", books |-> bs]
    ELSE IF id \in DOMAIN written /\ not_null_violation(written[id])
    THEN [error |-> "IntegrityError", constraint |-> "not-null", books |-> bs]
    ELSE IF id \in DOMAIN written /\ isbn_unique_violation(written, id, written[id].isbn)
    THEN [error |-> "IntegrityError", constraint |-> "isbn unique", books |-> bs]
    ELSE [error |-> "none", constraint |-> "isbn unique", books |-> written]

\* POST /api/v1/books: create_book.  The insert is committed; an IntegrityError
\* naming the isbn unique index is rolled back and answered 400, any other
\* SQLAlchemyError is rolled back and answered 500.
create_book(token, book, storage) ==
    LET current_user == get_current_user(token, users)
        isbn == normalize_isbn(book.isbn)
        db_book == [title |-> book.title, isbn |-> isbn.value,
                    description |-> book.description, created_by |-> current_user.uid]
        req == [book_id |-> MissingId]
        done == commit(books, nextBookId, (nextBookId :> db_book) @@ books, storage)
    IN
    /\ nextBookId <= MaxBooks
    /\ IF current_user.status # 200
       THEN /\ last' = Response("create_book", current_user, req)
            /\ UNCHANGED <<books, nextBookId>>
       ELSE IF ~isbn.ok
       THEN /\ last' = Response("create_book",
                                As(current_user.uid, Fail(422, "Unprocessable Entity")), req)
            /\ UNCHANGED <<books, nextBookId>>
       ELSE IF done.error = "IntegrityError"
       THEN /\ last' = Response("create_book",
                                As(current_user.uid, Fail(400, "Book with ISBN already exists")),
                                req)
                       @@ [content |-> HTTPException("Book with ISBN already exists")]
            /\ books' = done.books
            /\ UNCHANGED nextBookId
       ELSE IF done.error = "SQLAlchemyError"
       THEN /\ last' = Response("create_book",
                                As(current_user.uid,
                                   Fail(500, "An error occurred while creating the book")), req)
            /\ books' = done.books
            /\ UNCHANGED nextBookId
       ELSE /\ books' = done.books
            /\ nextBookId' = nextBookId + 1
            /\ last' = Response("create_book", [Ok(current_user.uid) EXCEPT !.status = 201],
                                [book_id |-> nextBookId])
    /\ UNCHANGED <<users, pc, rq, locks>>

\* create_book on worker w, up to the commit: the dependencies are resolved,
\* the body validated and the Book built.  Nothing is read from the books table.
create_book_begin(w, token, book) ==
    LET current_user == get_current_user(token, users)
        isbn == normalize_isbn(book.isbn)
        db_book == [title |-> book.title, isbn |-> isbn.value,
                    description |-> book.description, created_by |-> current_user.uid]
        req == [book_id |-> MissingId]
    IN
    /\ pc[w] = "idle"
    /\ nextBookId + Cardinality({o \in Workers : pc[o] = "insert"}) <= MaxBooks
    /\ IF current_user.status # 200
       THEN /\ last' = Response("create_book", current_user, req)
            /\ UNCHANGED <<pc, rq>>
       ELSE IF ~isbn.ok
       THEN /\ last' = Response("create_book",
                                As(current_user.uid, Fail(422, "Unprocessable Entity")), req)
            /\ UNCHANGED <<pc, rq>>
       ELSE /\ pc' = [pc EXCEPT ![w] = "insert"]
            /\ rq' = [rq EXCEPT ![w] = db_book]
            /\ UNCHANGED last
    /\ UNCHANGED <<users, books, nextBookId, locks>>

\* create_book on worker w: db.add, db.commit.  The INSERT and its COMMIT are
\* one step: an INSERT of a key another open transaction has inserted waits for
\* that transaction to end and then meets the committed row.
create_book_commit(w, storage) ==
    LET db_book == rq[w]
        done == commit(books, nextBookId, (nextBookId :> db_book) @@ books, storage)
        req == [book_id |-> MissingId]
    IN
    /\ pc[w] = "insert"
    /\ IF done.error = "IntegrityError"
       THEN /\ last' = Response("create_book",
                                As(db_book.created_by,
                                   Fail(400, "Book with ISBN already exists")), req)
                       @@ [content |-> HTTPException("Book with ISBN already exists")]
            /\ UNCHANGED nextBookId
       ELSE IF done.error = "SQLAlchemyError"
       THEN /\ last' = Response("create_book",
                                As(db_book.created_by,
                                   Fail(500, "An error occurred while creating the book")), req)
            /\ UNCHANGED nextBookId
       ELSE /\ nextBookId' = nextBookId + 1
            /\ last' = Response("create_book", [Ok(db_book.created_by) EXCEPT !.status = 201],
                                [book_id |-> nextBookId])
    /\ books' = done.books
    /\ pc' = [pc EXCEPT ![w] = "idle"]
    /\ rq' = [rq EXCEPT ![w] = IdleRq]
    /\ UNCHANGED <<users, locks>>

\* may_update with the ownership test left out
may_update_anyone(current_user, db_book) == TRUE

\* not (current_user.role != ADMIN and db_book.created_by != current_user.id)
may_update(current_user, db_book) ==
    ~(users[current_user].role # ADMIN /\ db_book.created_by # current_user)

\* A field a PUT body sets to null: set (model_dump keeps it), value None
Null == <<"null">>

\* The PUT bodies: each field unset, null or a value
BookUpdate(titles, isbns, descriptions) ==
    [title : titles, isbn : isbns, description : descriptions]

\* The value setattr assigns for a set field of the body
assigned(v) == IF v = Null THEN None ELSE v

\* model_dump with exclude_unset left out: every field of the body
model_dump_all(book) == DOMAIN book

\* book.model_dump(exclude_unset=True): the fields the body sets
model_dump(book) == {field \in DOMAIN book : book[field] # Unset}

\* PUT /api/v1/books/{book_id}: update_book.  404, then the owner-or-admin test,
\* then the set fields are assigned and committed; an IntegrityError naming the
\* isbn unique index is rolled back and answered 400, any other SQLAlchemyError
\* is rolled back and answered 500.
update_book(token, book_id, book, storage) ==
    LET current_user == get_current_user(token, users)
        req == [book_id |-> book_id, book |-> book]
        isbn == IF book.isbn = Null THEN [ok |-> TRUE, value |-> Null]
                ELSE normalize_isbn(book.isbn)
        update_data == model_dump(book)
        updated == [books[book_id] EXCEPT
                      !.title = IF "title" \in update_data THEN assigned(book.title) ELSE @,
                      !.isbn = IF "isbn" \in update_data THEN assigned(isbn.value) ELSE @,
                      !.description = IF "description" \in update_data
                                      THEN assigned(book.description) ELSE @]
        done == commit(books, book_id, [books EXCEPT ![book_id] = updated], storage)
    IN
    /\ IF current_user.status # 200
       THEN /\ last' = Response("update_book", current_user, req)
            /\ UNCHANGED books
       ELSE IF book.isbn # Unset /\ ~isbn.ok
       THEN /\ last' = Response("update_book",
                                As(current_user.uid, Fail(422, "Unprocessable Entity")), req)
            /\ UNCHANGED books
       ELSE IF book_id \notin BookIds
       THEN /\ last' = Response("update_book",
                                As(current_user.uid, Fail(404, "Book not found")), req)
            /\ UNCHANGED books
       ELSE IF ~may_update(current_user.uid, books[book_id])
       THEN /\ last' = Response("update_book",
                                As(current_user.uid,
                                   Fail(403, "You can only update your own books")), req)
            /\ UNCHANGED books
       ELSE IF done.error = "IntegrityError"
       THEN /\ last' = Response("update_book",
                                As(current_user.uid,
                                   IF done.constraint = "isbn unique"
                                   THEN Fail(400, "Book with ISBN already exists")
                                   ELSE Fail(400, "Database integrity constraint violated")),
                                req)
                       @@ [content |->
                              HTTPException(IF done.constraint = "isbn unique"
                                            THEN "Book with ISBN already exists"
                                            ELSE "Database integrity constraint violated")]
            /\ books' = done.books
       ELSE IF done.error = "SQLAlchemyError"
       THEN /\ last' = Response("update_book",
                                As(current_user.uid,
                                   Fail(500, "An error occurred while updating the book")), req)
            /\ books' = done.books
       ELSE /\ books' = done.books
            /\ last' = Response("update_book", Ok(current_user.uid), req)
    /\ UNCHANGED <<users, nextBookId, pc, rq, locks>>

\* delete_book with the lookup of the book ahead of the admin test
delete_book_lookup_first(token, book_id, storage) ==
    LET admin == get_admin_user(token, users)
        current_user == get_current_user(token, users)
        req == [book_id |-> book_id]
        done == commit(books, book_id, [b \in BookIds \ {book_id} |-> books[b]], storage)
    IN
    /\ IF current_user.status # 200
       THEN /\ last' = Response("delete_book", current_user, req)
            /\ UNCHANGED books
       ELSE IF book_id \notin BookIds
       THEN /\ last' = Response("delete_book",
                                As(current_user.uid, Fail(404, "Book not found")), req)
            /\ UNCHANGED books
       ELSE IF admin.status # 200
       THEN /\ last' = Response("delete_book", As(current_user.uid, admin), req)
            /\ UNCHANGED books
       ELSE IF done.error = "SQLAlchemyError"
       THEN /\ last' = Response("delete_book",
                                As(admin.uid,
                                   Fail(500, "An error occurred while deleting the book")), req)
            /\ books' = done.books
       ELSE /\ books' = done.books
            /\ last' = Response("delete_book", Ok(admin.uid), req)
    /\ UNCHANGED <<users, nextBookId, pc, rq, locks>>

\* DELETE /api/v1/books/{book_id}: delete_book behind get_admin_user; a
\* SQLAlchemyError at the commit is rolled back and answered 500
delete_book(token, book_id, storage) ==
    LET admin == get_admin_user(token, users)
        current_user == get_current_user(token, users)
        req == [book_id |-> book_id]
        done == commit(books, book_id, [b \in BookIds \ {book_id} |-> books[b]], storage)
    IN
    /\ IF admin.status # 200
       THEN /\ last' = Response("delete_book", As(current_user.uid, admin), req)
            /\ UNCHANGED books
       ELSE IF book_id \notin BookIds
       THEN /\ last' = Response("delete_book",
                                As(admin.uid, Fail(404, "Book not found")), req)
            /\ UNCHANGED books
       ELSE IF done.error = "SQLAlchemyError"
       THEN /\ last' = Response("delete_book",
                                As(admin.uid,
                                   Fail(500, "An error occurred while deleting the book")), req)
            /\ books' = done.books
       ELSE /\ books' = done.books
            /\ last' = Response("delete_book", Ok(admin.uid), req)
    /\ UNCHANGED <<users, nextBookId, pc, rq, locks>>

----------------------------------------------------------------------------
(* Initial states *)

\* The users table as provisioned: init_database.seed_initial_admin creates the
\* first admin; every account is created active, with a normalized unique email.
InitUsers ==
    {us \in [UserIds -> [email : {SeedEmail(i) : i \in UserIds},
                         hashed_password : {hash_password(SeedPassword, 1)},
                         is_active : {TRUE},
                         role : UserRole]] :
        /\ \A u \in UserIds : us[u].email = SeedEmail(u)
        /\ us[1].role = ADMIN}

\* A row of the books table older than the created_by column (migrate_task2)
LegacyBook == [title |-> <<"T1">>, isbn |-> Isbn13, description |-> Unset,
               created_by |-> NoUserId]

InitWorkers ==
    /\ pc = [w \in Workers |-> "idle"]
    /\ rq = [w \in Workers |-> IdleRq]
    /\ locks = [w \in Workers |-> {}]
    /\ last = NoResponse

\* Any provisioned users table, no books
Init ==
    /\ users \in InitUsers
    /\ books = <<>>
    /\ nextBookId = 1
    /\ InitWorkers

\* One admin and ordinary users, no books
InitAccounts ==
    /\ users \in {us \in InitUsers : \A u \in UserIds \ {1} : us[u].role = USER}
    /\ books = <<>>
    /\ nextBookId = 1
    /\ InitWorkers

\* One admin and ordinary users; the books table empty or holding a legacy row
InitBooks ==
    /\ users \in {us \in InitUsers : \A u \in UserIds \ {1} : us[u].role = USER}
    /\ \/ books = <<>> /\ nextBookId = 1
       \/ books = <<LegacyBook>> /\ nextBookId = 2
    /\ InitWorkers

----------------------------------------------------------------------------
(* Next-state relations *)

\* PATCH /users/{user_id}/role on two workers
NextRoles ==
    \/ \E w \in Workers, token \in Bearers(users),
          user_id \in UserIds \cup {MissingId}, role \in UserRole :
            update_user_role_guard(w, token, user_id, role)
    \/ \E w \in Workers : update_user_role_read(w)
    \/ \E w \in Workers : update_user_role_count(w)
    \/ \E w \in Workers : update_user_role_commit(w)

\* PATCH /users/{user_id}/role on one worker, and PUT /me setting is_active
NextAdmin ==
    \/ \E token \in FreshTokens(users), user_id \in UserIds, role \in UserRole :
            update_user_role_guard(1, token, user_id, role)
    \/ update_user_role_read(1)
    \/ update_user_role_count(1)
    \/ update_user_role_commit(1)
    \/ \E token \in FreshTokens(users),
          user_update \in UserUpdate({Unset}, {Unset}, {"true", "false"}, {Unset}) :
            update_user_profile(token, user_update, 1)

\* register, login, GET /me, and PUT /me on email, password and current_password
NextAccounts ==
    \/ \E email \in {<<"B">>, <<"Z">>}, password \in {SeedPassword, WeakPassword},
          role \in UserRole \cup {"unset"} :
            register_user(email, password, role)
    \/ \E email \in {<<"A">>, <<"Z">>}, password \in {SeedPassword, NewPassword} :
            login(email, password)
    \/ \E token \in Bearers(users) : get_current_user_profile(token)
    \/ \E token \in FreshTokens(users) \cup {InvalidToken},
          user_update \in UserUpdate({Unset, <<"Z">>}, {Unset, NewPassword, WeakPassword},
                                     {"unset"}, {Unset, SeedPassword, WrongPassword}),
          salt \in Salts :
            /\ user_update.password = Unset => salt = 1
            /\ update_user_profile(token, user_update, salt)

\* register and PUT /me on the email
NextEmails ==
    \/ \E email \in RawEmails, role \in {"unset"} :
            register_user(email, SeedPassword, role)
    \/ \E token \in FreshTokens(users),
          user_update \in UserUpdate(RawEmails, {Unset}, {"unset"}, {Unset, SeedPassword}) :
            update_user_profile(token, user_update, 1)

\* create, update (title) and delete of books
NextBooks ==
    \/ \E token \in FreshTokens(users) \cup {NoCredentials}, isbn \in {Isbn13Dashed, Isbn10X} :
            create_book(token, [title |-> <<"T1">>, isbn |-> isbn, description |-> Unset], "ok")
    \/ \E token \in FreshTokens(users) \cup {NoCredentials}, book_id \in 1..MaxBooks,
          book \in BookUpdate({<<"T2">>}, {Unset, Isbn10Dashed}, {Unset}) :
            update_book(token, book_id, book, "ok")
    \/ \E token \in FreshTokens(users) \cup {NoCredentials}, book_id \in 1..MaxBooks :
            delete_book(token, book_id, "ok")

\* create and update of books over the ISBN spellings
NextIsbns ==
    \/ \E token \in FreshTokens(users), isbn \in RawIsbns :
            create_book(token, [title |-> <<"T1">>, isbn |-> isbn, description |-> Unset], "ok")
    \/ \E token \in FreshTokens(users), book_id \in 1..MaxBooks,
          book \in BookUpdate({Unset}, RawIsbns, {Unset}) :
            update_book(token, book_id, book, "ok")

\* create, and update over every combination of unset, null and set fields
NextPatch ==
    \/ \E token \in {t \in FreshTokens(users) : t.user_id = 2},
          isbn \in {Isbn13Dashed, Isbn10X} :
            create_book(token, [title |-> <<"T1">>, isbn |-> isbn, description |-> <<"D1">>],
                        "ok")
    \/ \E token \in {t \in FreshTokens(users) : t.user_id = 2}, book_id \in 1..MaxBooks,
          book \in BookUpdate({Unset, Null, <<"T2">>}, {Unset, Isbn10Dashed},
                              {Unset, Null, <<"D2">>}) :
            update_book(token, book_id, book, "ok")

\* create, update and delete of books over a storage engine that may fail
NextStorage ==
    \/ \E token \in {t \in FreshTokens(users) : t.user_id = 2},
          isbn \in {Isbn13Dashed, Isbn10X}, storage \in Storage :
            create_book(token, [title |-> <<"T1">>, isbn |-> isbn, description |-> Unset],
                        storage)
    \/ \E token \in {t \in FreshTokens(users) : t.user_id \in {1, 2}},
          book_id \in 1..MaxBooks,
          book \in BookUpdate({Null, <<"T2">>}, {Unset, Isbn10Dashed}, {Unset}),
          storage \in Storage :
            update_book(token, book_id, book, storage)
    \/ \E token \in {t \in FreshTokens(users) : t.user_id \in {1, 2}},
          book_id \in 1..MaxBooks, storage \in Storage :
            delete_book(token, book_id, storage)

\* GET /me with every kind of bearer, and PUT /me changing the email or is_active
NextGuard ==
    \/ \E token \in Bearers(users) \cup SeedTokens(users) : get_current_user_profile(token)
    \/ \E token \in FreshTokens(users),
          user_update \in UserUpdate({Unset, <<"Z">>}, {Unset}, {"unset", "false"}, {Unset}) :
            update_user_profile(token, user_update, 1)

\* login, and PUT /me changing the password or is_active
NextLogin ==
    \/ \E email \in {<<"A">>, <<"b">>, <<"Z">>},
          password \in {SeedPassword, NewPassword, WrongPassword} :
            login(email, password)
    \/ \E token \in FreshTokens(users),
          user_update \in UserUpdate({Unset}, {Unset, NewPassword}, {"unset", "false"}, {Unset}),
          salt \in Salts :
            /\ user_update.password = Unset => salt = 1
            /\ update_user_profile(token, user_update, salt)

\* Every operation: the role PATCH on one worker, the account handlers and the
\* book handlers
NextAll ==
    \/ \E token \in FreshTokens(users), user_id \in UserIds \ {1}, role \in UserRole :
            update_user_role_guard(1, token, user_id, role)
    \/ update_user_role_read(1)
    \/ update_user_role_count(1)
    \/ update_user_role_commit(1)
    \/ register_user(<<"Z">>, SeedPassword, ADMIN)
    \/ login(<<"A">>, SeedPassword)
    \/ \E token \in {t \in FreshTokens(users) : t.user_id = 2} :
            get_current_user_profile(token)
    \/ \E token \in {t \in FreshTokens(users) : t.user_id = 2} :
            update_user_profile(token,
                                [email |-> <<"Z">>, password |-> Unset, is_active |-> "unset",
                                 current_password |-> Unset], 1)
    \/ \E token \in {t \in FreshTokens(users) : t.user_id = 2} :
            create_book(token, [title |-> <<"T1">>, isbn |-> Isbn10X, description |-> Unset],
                        "ok")
    \/ \E token \in {t \in FreshTokens(users) : t.user_id \in {1, 2}},
          book_id \in 1..MaxBooks :
            update_book(token, book_id,
                        [title |-> <<"T2">>, isbn |-> Unset, description |-> Unset], "ok")
    \/ \E token \in {t \in FreshTokens(users) : t.user_id \in {1, 2}},
          book_id \in 1..MaxBooks :
            delete_book(token, book_id, "ok")

\* create, update of the title, and GET of books
NextRead ==
    \/ \E token \in {t \in FreshTokens(users) : t.user_id \in {2, 3}},
          isbn \in {Isbn13Dashed, Isbn10x} :
            create_book(token, [title |-> <<"T1">>, isbn |-> isbn, description |-> Unset],
                        "ok")
    \/ \E token \in FreshTokens(users), book_id \in 1..MaxBooks :
            update_book(token, book_id,
                        [title |-> <<"T2">>, isbn |-> Unset, description |-> Unset], "ok")
    \/ \E book_id \in 1..MaxBooks : get_book(book_id)

\* login, and PUT /me setting one password or the other
NextPassword ==
    \/ \E email \in {<<"A">>, <<"b">>}, password \in {SeedPassword, NewPassword} :
            login(email, password)
    \/ \E token \in FreshTokens(users),
          user_update \in UserUpdate({Unset}, {SeedPassword, NewPassword, WeakPassword},
                                     {"unset"}, {Unset, SeedPassword}),
          salt \in Salts :
            update_user_profile(token, user_update, salt)

\* an IntegrityError no handler caught reaches the application's handler
NextIntegrity ==
    \E error_message \in ErrorMessages : integrity_error_handler(error_message)

\* validate_isbn over the spellings
NextValidateIsbn ==
    \E v \in IsbnInputs : validate_isbn_call(v)

\* tokens issued and presented at instants around their expiry
NextToken ==
    \/ \E u \in UserIds, expires_delta \in Lifetimes, utcnow \in IssueInstants :
            issue_token(1, u, expires_delta, utcnow)
    \/ \E age \in Ages : verify_token_step(1, rq[1].issued + age)

\* requests with the tokens of an earlier login, while registrations and PUT /me
\* move emails between accounts
NextIdentity ==
    \/ \E token \in SeedTokens(users) : get_current_user_profile(token)
    \/ \E email \in {<<"A">>, <<"Z">>} : register_user(email, SeedPassword, "unset")
    \/ \E token \in FreshTokens(users),
          user_update \in UserUpdate({<<"A">>, <<"B">>, <<"Z">>}, {Unset}, {"unset"}, {Unset}) :
            update_user_profile(token, user_update, 1)

\* the admin-only endpoints, called with tokens whose role claim may be stale
NextAccess ==
    \/ \E token \in RoleTokens(users), user_id \in UserIds, role \in UserRole :
            update_user_role_guard(1, token, user_id, role)
    \/ update_user_role_read(1)
    \/ update_user_role_count(1)
    \/ update_user_role_commit(1)
    \/ \E token \in RoleTokens(users) : list_users(token)
    \/ \E token \in RoleTokens(users), user_id \in UserIds \cup {MissingId} :
            get_user(token, user_id)
    \/ \E token \in RoleTokens(users), book_id \in 1..MaxBooks :
            delete_book(token, book_id, "ok")

\* login, GET /me and PUT /me on email and is_active, with the tokens of an
\* earlier login and of the latest one
NextDeactivate ==
    \/ \E email \in {<<"A">>, <<"b">>, <<"Z">>} : login(email, SeedPassword)
    \/ \E token \in SeedTokens(users) \cup FreshTokens(users) :
            get_current_user_profile(token)
    \/ \E token \in SeedTokens(users) \cup FreshTokens(users),
          user_update \in UserUpdate({Unset, <<"A">>, <<"Z">>}, {Unset},
                                     {"unset", "true", "false"}, {Unset}) :
            update_user_profile(token, user_update, 1)

\* create of books on two workers
NextCreateRace ==
    \/ \E w \in Workers, token \in FreshTokens(users) \cup {NoCredentials},
          isbn \in {Isbn10X, Isbn10x, Isbn10Dashed, IsbnShort} :
            create_book_begin(w, token,
                              [title |-> <<"T1">>, isbn |-> isbn, description |-> Unset])
    \/ \E w \in Workers : create_book_commit(w, "ok")

\* register on two workers
NextRegisterRace ==
    \/ \E w \in Workers, email \in {<<"A">>, <<"z">>, <<"Z">>},
          password \in {SeedPassword, NewPassword, WeakPassword}, role \in {"unset"} :
            register_user_check(w, email, password, role)
    \/ \E w \in Workers : register_user_create(w)

Spec == Init /\ [][NextRoles]_vars

SpecAdmin == Init /\ [][NextAdmin]_vars

SpecAccounts == InitAccounts /\ [][NextAccounts]_vars

SpecEmails == Init /\ [][NextEmails]_vars

SpecBooks == InitBooks /\ [][NextBooks]_vars

SpecIsbns == InitBooks /\ [][NextIsbns]_vars

SpecPatch == InitBooks /\ [][NextPatch]_vars

SpecStorage == InitBooks /\ [][NextStorage]_vars

SpecGuard == InitAccounts /\ [][NextGuard]_vars

SpecLogin == InitAccounts /\ [][NextLogin]_vars

SpecAll == InitAccounts /\ [][NextAll]_vars

SpecRead == InitBooks /\ [][NextRead]_vars

SpecPassword == InitAccounts /\ [][NextPassword]_vars

SpecIntegrity == InitAccounts /\ [][NextIntegrity]_vars

SpecValidateIsbn == InitAccounts /\ [][NextValidateIsbn]_vars

SpecToken == InitAccounts /\ [][NextToken]_vars

SpecIdentity == InitAccounts /\ [][NextIdentity]_vars

SpecAccess == InitBooks /\ [][NextAccess]_vars

SpecDeactivate == InitAccounts /\ [][NextDeactivate]_vars

SpecCreateRace == InitBooks /\ [][NextCreateRace]_vars

SpecRegisterRace == Init /\ [][NextRegisterRace]_vars

----------------------------------------------------------------------------
(* Claims *)

\* Worker w's request is a demotion: the loaded target is an admin, the new role user
Demoting(w) == rq[w].loaded = ADMIN /\ rq[w].role = USER

\* C1: over any interleaving of PATCH /users/{id}/role requests, from a state
\* with an admin, an admin always remains; the admin count of a demotion, when
\* it finds one admin or none, ends the request with 400 "last admin" and
\* changes no row, and when it finds two or more lets the demotion go on to
\* its commit, which answers 200 and leaves the target with role user.
C1_LastAdminKept ==
    /\ [](admin_count(users) >= 1)
    /\ [][\A w \in Workers :
            /\ (pc[w] = "count" /\ pc'[w] # "count") =>
                  IF admin_count(users) <= 1
                  THEN /\ pc'[w] = "idle"
                       /\ last'.op = "update_user_role"
                       /\ last'.status = 400
                       /\ last'.detail = "Cannot demote the last admin user"
                       /\ users' = users
                  ELSE pc'[w] = "write" /\ users' = users
            /\ (pc[w] = "write" /\ pc'[w] = "idle" /\ Demoting(w)) =>
                  /\ last'.op = "update_user_role"
                  /\ last'.status = 200
                  /\ users'[rq[w].id].role = USER]_vars

\* C1 witness: the demotion of the only admin was answered 400
C1_Witness ==
    /\ last.op = "update_user_role"
    /\ last.status = 400
    /\ admin_count(users) = 1

\* C2: two demotions are never both past the admin count at once, and a
\* demotion commits only while two or more admins exist: of two concurrent
\* demotions of the two remaining admins at most one commits, and the state
\* without admins is unreachable.
C2_NoDemotionRace ==
    /\ [](\A w1, w2 \in Workers :
            (w1 # w2 /\ pc[w1] = "write" /\ Demoting(w1)) =>
                ~(pc[w2] = "write" /\ Demoting(w2)))
    /\ [][\A w \in Workers :
            (pc[w] = "write" /\ pc'[w] = "idle" /\ Demoting(w)) =>
                admin_count(users) >= 2 /\ AdminIds(users') # {}]_vars

\* C2 witness: exactly two admins, each the target of an in-flight demotion;
\* one demotion has counted and holds the rows, the other waits at its count
C2_Witness ==
    \E w1, w2 \in Workers :
        /\ admin_count(users) = 2
        /\ pc[w1] = "write" /\ Demoting(w1) /\ locks[w1] = AdminIds(users)
        /\ pc[w2] = "count"
        /\ rq[w1].id # rq[w2].id
        /\ {rq[w1].id, rq[w2].id} = AdminIds(users)

\* C3: whenever some user is an admin, some user is an active admin
C3_ActiveAdminExists ==
    AdminIds(users) # {} => \E u \in AdminIds(users) : users[u].is_active

\* C4: a registration that passes validation (no 422) for an unused email (no
\* 400) succeeds with 201 and stores a user of role user, whatever role the
\* body carries
C4_RegisterForcesUserRole ==
    (/\ last.op = "register_user"
     /\ last.status \notin {400, 422}) =>
        /\ last.status = 201
        /\ \E u \in DOMAIN users :
              users[u].email = normalize_email(last.req.email) /\ users[u].role = USER

\* C5: an authenticated update of an existing book is refused with 403 exactly
\* when the requester is neither an admin nor the book's creator (a book with
\* no creator is refused to every non-admin), and a refused update changes no book.
C5_UpdateOwnerOrAdmin ==
    [][(/\ last'.op = "update_book"
        /\ last'.uid # NoUserId
        /\ last'.status # 422
        /\ last'.req.book_id \in DOMAIN books) =>
          LET requester == last'.uid
              stored == books[last'.req.book_id]
              allowed == users[requester].role = ADMIN \/ stored.created_by = requester
          IN  /\ last'.status = 403 <=> ~allowed
              /\ last'.status = 403 => books' = books
              /\ books' # books => allowed]_vars

\* C5 witness: a non-admin was refused the update of a book nobody created
C5_Witness ==
    /\ last.op = "update_book"
    /\ last.status = 403
    /\ last.uid # NoUserId
    /\ users[last.uid].role = USER
    /\ last.req.book_id \in DOMAIN books
    /\ books[last.req.book_id].created_by = NoUserId

C7_NoUserIdIs401 ==
    (/\ last.op = "get_current_user_profile"
     /\ last.req.sig = "ok"
     /\ last.req.sub # None
     /\ last.req.user_id = NoUserId) => last.status = 401

\* C8: a valid PUT /me that changes the email or the password without a
\* current_password that verifies against the stored hash is answered 400 and
\* leaves the users table as it was
C8_ChangeNeedsCurrentPassword ==
    [][(/\ last'.op = "update_user_profile"
        /\ last'.uid # NoUserId
        /\ last'.status # 422) =>
          LET stored == users[last'.uid]
              body == last'.req
              changes ==
                  \/ body.password # Unset
                  \/ body.email # Unset /\ strip(lower(body.email)) # stored.email
              proved ==
                  /\ body.current_password # Unset
                  /\ verify_password(body.current_password, stored.hashed_password)
          IN  (changes /\ ~proved) => (last'.status = 400 /\ users' = users)]_vars

\* C9: no two users have emails equal after lowercasing and trimming, and a
\* registration that passes validation (no 422) with an email equal to a
\* stored one in that form is answered 400 "already exists"
C9_EmailUnique ==
    /\ \A u, v \in DOMAIN users :
          u # v => strip(lower(users[u].email)) # strip(lower(users[v].email))
    /\ (/\ last.op = "register_user"
        /\ last.status # 422
        /\ \E u \in DOMAIN users :
              strip(lower(users[u].email)) = strip(lower(last.req.email))) =>
            /\ last.status = 400
            /\ last.detail = "User with email already exists"

\* C9 witness: a registration spelled in another letter case than the stored
\* email was answered 400, after a profile update has changed an email
C9_Witness ==
    /\ last.op = "register_user"
    /\ last.status = 400
    /\ \E u \in DOMAIN users :
          /\ users[u].email # last.req.email
          /\ strip(lower(users[u].email)) = strip(lower(last.req.email))
          /\ users[u].email # SeedEmail(u)

\* C10: no two stored books have ISBNs equal in normalized form
C10_IsbnUnique ==
    \A a, b \in DOMAIN books :
        a # b => NormalizedIsbn(books[a].isbn) # NormalizedIsbn(books[b].isbn)

\* C11: a create_book commit that meets a stored book of the same normalized
\* ISBN (separators stripped, uppercased) is answered 400 "already exists"
\* and stores nothing, however the two requests interleaved
C11_CreateRaceOneWins ==
    [][\A w \in Workers :
          (/\ pc[w] = "insert"
           /\ pc'[w] = "idle"
           /\ \E b \in DOMAIN books :
                 NormalizedIsbn(books[b].isbn) = NormalizedIsbn(rq[w].isbn)) =>
              /\ last'.op = "create_book"
              /\ last'.status = 400
              /\ last'.detail = "Book with ISBN already exists"
              /\ books' = books]_vars

\* C12: a registration that passed the existence check ends with the user
\* created (201) or with the classified duplicate-email error (400 or 409),
\* never with an unhandled failure, and no two users share a normalized email
C12_RegisterRaceClassified ==
    /\ [](\A u, v \in DOMAIN users :
            u # v => strip(lower(users[u].email)) # strip(lower(users[v].email)))
    /\ [][\A w \in Workers :
            (pc[w] = "create" /\ pc'[w] = "idle") =>
                /\ last'.op = "register_user"
                /\ last'.status \in {201, 400, 409}]_vars

\* C13: a successful book update gives every field the body sets the body's
\* value (null stored as NULL, the isbn in normalized form), leaves every field
\* the body does not set as it was, and changes no other book
C13_PartialUpdate ==
    [][(last'.op = "update_book" /\ last'.status = 200) =>
          LET id == last'.req.book_id
              patch == last'.req.book
          IN  /\ DOMAIN books' = DOMAIN books
              /\ \A b \in DOMAIN books \ {id} : books'[b] = books[b]
              /\ \A field \in {"title", "isbn", "description"} :
                    patch[field] = Unset => books'[id][field] = books[id][field]
              /\ patch.title # Unset => books'[id].title = patch.title
              /\ patch.isbn # Unset =>
                    NormalizedIsbn(books'[id].isbn) = NormalizedIsbn(patch.isbn)
              /\ patch.description # Unset =>
                    books'[id].description = IF patch.description = Null THEN None
                                             ELSE patch.description]_vars

\* C13 witness: an update that set only the title has been applied to a book
\* whose description an earlier update had changed
C13_Witness ==
    /\ last.op = "update_book"
    /\ last.status = 200
    /\ last.req.book = [title |-> <<"T2">>, isbn |-> Unset, description |-> Unset]
    /\ books[last.req.book_id].title = <<"T2">>
    /\ books[last.req.book_id].description = <<"D2">>

C15_GuardOrder ==
    (last.op = "get_current_user_profile" /\ last.req.sig # "absent") =>
        LET token == last.req
            verifies == token.sig = "ok" /\ token.sub # None /\ token.user_id # NoUserId
            found == {u \in DOMAIN users : users[u].email = token.sub}
        IN  IF ~verifies THEN last.status = 401
            ELSE IF found = {} THEN last.status = 401
            ELSE IF \E u \in found : ~users[u].is_active THEN last.status = 403
            ELSE last.status = 200 /\ last.uid \in found

\* C16: a login with an email no user has and a login with a stored email
\* and a password that does not verify get the same response: 401,
\* "Incorrect email or password", no user and no token
C16_LoginUndifferentiated ==
    last.op = "login" =>
        LET found == {u \in DOMAIN users : users[u].email = strip(lower(last.req.email))}
            unknown == found = {}
            wrong == \E u \in found :
                        ~verify_password(last.req.password, users[u].hashed_password)
        IN  (unknown \/ wrong) =>
                /\ last.status = 401
                /\ last.detail = "Incorrect email or password"
                /\ last.uid = NoUserId
                /\ last.access_token = NoToken

\* C16 witness: a login with a stored email and a wrong password was refused
C16_Witness ==
    /\ last.op = "login"
    /\ last.status = 401
    /\ \E u \in DOMAIN users :
          /\ users[u].email = strip(lower(last.req.email))
          /\ ~verify_password(last.req.password, users[u].hashed_password)

\* C17: a login answers with a token only for an active user whose password
\* verifies; for an inactive user the correct password is answered 403 and a
\* wrong password 401, both without a token
C17_LoginActiveOnly ==
    last.op = "login" =>
        LET found == {u \in DOMAIN users : users[u].email = strip(lower(last.req.email))}
        IN  /\ last.access_token # NoToken =>
                  /\ last.status = 200
                  /\ \E u \in found :
                        /\ users[u].is_active
                        /\ verify_password(last.req.password, users[u].hashed_password)
                        /\ last.access_token.user_id = u
            /\ \A u \in found :
                  ~users[u].is_active =>
                      /\ last.access_token = NoToken
                      /\ last.status =
                            IF verify_password(last.req.password, users[u].hashed_password)
                            THEN 403 ELSE 401

\* C17 witness: an inactive user presented the correct password and got 403
C17_Witness ==
    /\ last.op = "login"
    /\ last.status = 403
    /\ \E u \in DOMAIN users :
          /\ users[u].email = strip(lower(last.req.email))
          /\ ~users[u].is_active
          /\ verify_password(last.req.password, users[u].hashed_password)

\* C18: a PUT /me whose email, normalized, is held by another user is answered
\* 400 "already in use" and changes no user; a PUT /me whose email is the
\* requester's own is not a conflict and succeeds
C18_ProfileEmailConflict ==
    [][(/\ last'.op = "update_user_profile"
        /\ last'.uid # NoUserId
        /\ last'.status # 422
        /\ last'.req.email # Unset) =>
          LET me == last'.uid
              email == strip(lower(last'.req.email))
              others == {u \in DOMAIN users \ {me} : users[u].email = email}
          IN  /\ others # {} =>
                    /\ last'.status = 400
                    /\ last'.detail = "Email already in use"
                    /\ users' = users
              /\ users[me].email = email =>
                    /\ last'.status = 200
                    /\ users'[me].email = email]_vars

\* C18 witness: a user asked for another user's email in another letter case
\* and was refused
C18_Witness ==
    /\ last.op = "update_user_profile"
    /\ last.status = 400
    /\ last.detail = "Email already in use"
    /\ \E u \in DOMAIN users \ {last.uid} :
          /\ users[u].email = strip(lower(last.req.email))
          /\ users[u].email # last.req.email

\* C19: a role differs after a step only if the step is the commit of a role
\* PATCH, answered 200, of a requester who is an admin, and only the target's
\* role differs; a role PATCH is admitted only for an admin requester, and one
\* by an authenticated non-admin is answered 403 and changes nothing
C19_RoleChangedOnlyByAdminPatch ==
    [][/\ (\E u \in DOMAIN users : users'[u].role # users[u].role) =>
            \E w \in Workers :
                /\ pc[w] = "write" /\ pc'[w] = "idle"
                /\ last'.op = "update_user_role" /\ last'.status = 200
                /\ rq[w].uid \in AdminIds(users)
                /\ \A u \in DOMAIN users \ {rq[w].id} : users'[u].role = users[u].role
       /\ \A w \in Workers :
            (pc[w] = "idle" /\ pc'[w] = "read") => rq'[w].uid \in AdminIds(users)
       /\ (/\ last' # last
           /\ last'.op = "update_user_role"
           /\ last'.uid # NoUserId
           /\ users[last'.uid].role # ADMIN) =>
                /\ last'.status = 403
                /\ users' = users
                /\ pc' = pc]_vars

\* C19 witness: a role has been changed by a PATCH, and a non-admin's PATCH
\* has then been refused
C19_Witness ==
    /\ last.op = "update_user_role"
    /\ last.status = 403
    /\ last.uid # NoUserId
    /\ users[last.uid].role = USER
    /\ \E u \in DOMAIN users \ {1} : users[u].role = ADMIN

\* C20: a created book has created_by equal to the requester's id, a GET of
\* the book returns that created_by and the normalized ISBN, and no step
\* changes the created_by of a stored book
C20_CreatedByKept ==
    /\ []((last.op = "get_book" /\ last.status = 200) =>
            /\ "created_by" \in DOMAIN last.body
            /\ last.body.created_by = books[last.req.book_id].created_by
            /\ last.body.isbn = NormalizedIsbn(books[last.req.book_id].isbn))
    /\ [][/\ (last'.op = "create_book" /\ last'.status = 201 /\ books' # books) =>
                books'[last'.req.book_id].created_by = last'.uid
           /\ \A b \in DOMAIN books \cap DOMAIN books' :
                books'[b].created_by = books[b].created_by]_vars

\* C21: after a PUT /me that set a password and was answered 200, the stored
\* credential verifies that password and no other, no other step changes a
\* stored credential, and a login of an active user succeeds exactly with the
\* password the stored credential verifies
C21_PasswordChange ==
    /\ [][/\ (/\ last'.op = "update_user_profile"
               /\ last'.status = 200
               /\ last'.req.password # Unset) =>
                \A password \in {SeedPassword, NewPassword, WrongPassword, WeakPassword} :
                    verify_password(password, users'[last'.uid].hashed_password)
                        <=> password = last'.req.password
           /\ \A u \in DOMAIN users :
                users'[u].hashed_password # users[u].hashed_password =>
                    /\ last'.op = "update_user_profile"
                    /\ last'.status = 200
                    /\ last'.uid = u
                    /\ last'.req.password # Unset]_vars
    /\ [](last.op = "login" =>
            \A u \in DOMAIN users :
                (users[u].email = strip(lower(last.req.email)) /\ users[u].is_active) =>
                    (last.status = 200 /\ last.uid = u)
                        <=> verify_password(last.req.password, users[u].hashed_password))

\* C21 witness: a user whose password was changed by PUT /me has logged in
\* with the new password
C21_Witness ==
    /\ last.op = "login"
    /\ last.status = 200
    /\ last.req.password = NewPassword
    /\ verify_password(NewPassword, users[last.uid].hashed_password)
    /\ ~verify_password(SeedPassword, users[last.uid].hashed_password)

\* C22: every response that translates an integrity failure, those of book
\* create and update included, carries a detail string and an error_type string
C22_ErrorTypePresent ==
    "content" \in DOMAIN last => {"detail", "error_type"} \subseteq DOMAIN last.content

unique_violation(m) == "unique constraint" \in m \/ "duplicate key" \in m
foreign_key_violation(m) == "foreign key constraint" \in m \/ "violates foreign key" \in m
not_null_violation_message(m) == "not null constraint" \in m \/ "null value" \in m

\* C23: every message is classified by the first matching of unique, foreign
\* key, not null, check, generic: unique with isbn is duplicate_isbn (409),
\* unique with email duplicate_email (409), other unique duplicate_resource
\* (409), foreign key in a deletion context foreign_key_referenced (409), other
\* foreign key foreign_key_violation (400), not null missing_required_field
\* (400), check check_constraint_violation (400), anything else
\* integrity_error (400)
C23_Classification ==
    last.op = "integrity_error_handler" =>
        LET m == last.req
            kind == <<last.content.error_type, last.status>>
            deletion == "still referenced" \in m \/ "on delete" \in m
        IN
        /\ unique_violation(m) =>
              /\ "isbn" \in m => kind = <<"duplicate_isbn", 409>>
              /\ ("isbn" \notin m /\ "email" \in m) => kind = <<"duplicate_email", 409>>
              /\ ("isbn" \notin m /\ "email" \notin m) => kind = <<"duplicate_resource", 409>>
        /\ (~unique_violation(m) /\ foreign_key_violation(m)) =>
              /\ deletion => kind = <<"foreign_key_referenced", 409>>
              /\ ~deletion => kind = <<"foreign_key_violation", 400>>
        /\ (~unique_violation(m) /\ ~foreign_key_violation(m)
               /\ not_null_violation_message(m)) =>
              kind = <<"missing_required_field", 400>>
        /\ (~unique_violation(m) /\ ~foreign_key_violation(m)
               /\ ~not_null_violation_message(m) /\ "check constraint" \in m) =>
              kind = <<"check_constraint_violation", 400>>
        /\ (~unique_violation(m) /\ ~foreign_key_violation(m)
               /\ ~not_null_violation_message(m) /\ "check constraint" \notin m) =>
              kind = <<"integrity_error", 400>>

\* C23 witness: a message that names both a unique and a foreign key violation
\* has been classified as a duplicate
C23_Witness ==
    /\ last.op = "integrity_error_handler"
    /\ unique_violation(last.req)
    /\ foreign_key_violation(last.req)
    /\ last.content.error_type = "duplicate_resource"

\* s and t are equal but for the case of a last character x
same_but_last_x(s, t) ==
    /\ Len(s) = Len(t)
    /\ \A i \in 1..Len(s) :
          \/ s[i] = t[i]
          \/ i = Len(s) /\ {s[i], t[i]} = {"x", "X"}

\* C24: validate_isbn accepts an input exactly when, separators removed and
\* uppercased, it has 10 or 13 characters, all but the last digits and the last
\* a digit or, at length 10 only, X; it returns that cleaned string, so that
\* two inputs that differ only in separators or in the case of a last x have
\* the same result
C24_ValidateIsbn ==
    last.op = "validate_isbn" =>
        LET v == last.req
            c == remove_separators(v)
            n == Len(c)
            accepted == /\ n \in {10, 13}
                        /\ \A i \in 1..(n - 1) : c[i] \in Digits
                        /\ \/ c[n] \in Digits
                           \/ n = 10 /\ c[n] \in {"x", "X"}
        IN
        /\ (last.status = 200) <=> accepted
        /\ last.status = 200 =>
              /\ Len(last.value) = n
              /\ \A i \in 1..n : last.value[i] = (IF c[i] = "x" THEN "X" ELSE c[i])
        /\ \A w \in IsbnInputs :
              same_but_last_x(remove_separators(w), c) =>
                  /\ validate_isbn(w).ok = (last.status = 200)
                  /\ last.status = 200 => validate_isbn(w).value = last.value

\* C24 witness: an ISBN-10 spelled with dashes and a lowercase x was accepted
\* and returned without dashes and with X
C24_Witness ==
    /\ last.op = "validate_isbn"
    /\ last.status = 200
    /\ "-" \in {last.req[i] : i \in 1..Len(last.req)}
    /\ last.req[Len(last.req)] = "x"
    /\ last.value = SubSeq(Isbn13, 1, 9) \o <<"X">>

\* a 13 character ISBN ending in X was rejected
C24_Rejected13X ==
    /\ last.op = "validate_isbn"
    /\ last.status = 422
    /\ Len(remove_separators(last.req)) = 13
    /\ last.req[Len(last.req)] = "X"

\* C25: a registration whose password is shorter than 8 characters or lacks a
\* lowercase letter, an uppercase letter, a digit or a character that is
\* neither is answered 422; one whose password has all of them and at most
\* 100 characters is accepted (201, the email being unused); a registration
\* answered 422 creates no user
C25_PasswordPolicy ==
    [][last'.op = "register_user" =>
        LET password == last'.req.password
            weak == \/ Len(password) < 8
                    \/ ~Has(password, Lowercase)
                    \/ ~Has(password, Uppercase)
                    \/ ~Has(password, Digits)
                    \/ \A i \in 1..Len(password) :
                          password[i] \in Lowercase \cup Uppercase \cup Digits
        IN
        /\ weak => last'.status = 422
        /\ (/\ ~weak
            /\ Len(password) <= 100
            /\ UserByEmail(users, normalize_email(last'.req.email)) = {}) =>
                last'.status = 201
        /\ last'.status = 422 => users' = users]_vars

\* C26: a token issued at t with lifetime d (30 minutes when none is given)
\* is accepted by verify_token before t + d, yielding the subject email and
\* user id it was issued for, and rejected with 401 after t + d
C26_TokenLifetime ==
    last.op = "verify_token" =>
        LET t == last.req.issued
            d == IF last.req.expires_delta = None
                 THEN timedelta_minutes(ACCESS_TOKEN_EXPIRE_MINUTES)
                 ELSE last.req.expires_delta[1]
            now == last.req.utcnow
        IN
        /\ now < t + d =>
              /\ last.status = 200
              /\ last.email = last.req.token.sub
              /\ last.uid = last.req.token.user_id
        /\ now > t + d => last.status = 401

\* C27: a request with the token a login issued to user U resolves to U or to
\* no user, whatever registrations and email changes happened since
C27_TokenBoundToUser ==
    (/\ last.op = "get_current_user_profile"
     /\ last.req.sig = "ok"
     /\ last.req.user_id # NoUserId) =>
        /\ last.uid \in {last.req.user_id, NoUserId}
        /\ last.uid = NoUserId => last.status = 401

C28_Promoted ==
    /\ last.op = "get_user"
    /\ last.status = 200
    /\ last.uid = 2
    /\ last.req.token.role = USER
    /\ users[2].role = ADMIN

\* C29 (permanence): no step makes an inactive user active again
C29_NeverReactivated ==
    [][\A u \in DOMAIN users : ~users[u].is_active => ~users'[u].is_active]_vars

\* C29 (login): no login of an inactive user succeeds
C29_NoLogin ==
    last.op = "login" =>
        \A u \in DOMAIN users :
            (users[u].email = strip(lower(last.req.email)) /\ ~users[u].is_active) =>
                last.status \in {401, 403} /\ last.access_token = NoToken

\* C29: a user who is inactive is never made active again, no login of that
\* user succeeds, and every request with a token issued to that user is rejected
C29_DeactivationPermanent ==
    /\ C29_NeverReactivated
    /\ [](C29_NoLogin)
    /\ []((/\ last.op = "get_current_user_profile"
           /\ last.req.user_id \in DOMAIN users
           /\ ~users[last.req.user_id].is_active)
          => last.status \in {401, 403})

C30_UpdateMissing ==
    /\ last.op = "update_book"
    /\ last.status = 404
    /\ last.uid # NoUserId
    /\ users[last.uid].role = USER
    /\ last.req.book_id \notin DOMAIN books

====
